---- MODULE Spec2Model ----
(***************************************************************************)
(* PreflopAdvisor query engine: hand canonicalisation                      *)
(* (hand_convert_helper.py) and the range-file lookup engine               *)
(* (tree_reader.py: ActionProcessor, TreeReader).                          *)
(*                                                                         *)
(* Strings of the program are sequences of one-character strings, so that  *)
(* indexing, substring tests and splitting are computed as the code does.  *)
(***************************************************************************)
EXTENDS Integers, Sequences, FiniteSets, TLC

VARIABLES
    hand,       \* the hand string handed to convert_hand
    key,        \* what convert_hand returned for it
    key0,       \* what convert_hand returned for the order first dealt
    hstep,      \* "dealt" before the conversion, "converted" after it
    reordered   \* TRUE once the cards were handed over in another order

VARIABLES
    cache_size,     \* ActionProcessor.cache_size of the processor in use
    fs,             \* the tree folder: [corpus, removed]
    CACHE,          \* the module-wide OrderedDict: a sequence of [path, table]
    position_list,  \* TreeReader.position_list (the same list as ActionProcessor.position_list)
    position,       \* TreeReader.position
    todo,           \* the cells TreeReader.get_results has still to fill, in order
    results,        \* the cells filled so far: [op, pos, col, rows]
    ret,            \* "running", "returned" or "raised" for TreeReader.get_results
    call,           \* the scenario call of the last cell
    look,           \* the last lookup of one action's file
    useOrder,       \* the resident paths, least recently looked up first
    supplied,       \* the configs handed to ActionProcessor.__init__
    proc_configs,   \* ActionProcessor.configs (the same dict, as the processor changes it)
    decisions,      \* the decision list handed to get_action_sequence
    sequence,       \* the action sequence built from it, then resolved
    encoded,        \* what test_action_sequence got from get_filename and from isfile
    estep           \* how far the encoding of the decision list went

handVars == <<hand, key, key0, hstep, reordered>>

procVars == <<cache_size, fs, CACHE>>

readerVars == <<position_list, position, todo, results, ret, call>>

lookVars == <<look, useOrder>>

encVars == <<supplied, proc_configs, decisions, sequence, encoded, estep>>

vars == <<handVars, procVars, readerVars, lookVars, encVars>>

\* ------------------------------------------------------------------------
\* Bounds of the model
\* ------------------------------------------------------------------------

\* how many cards of DeckOrder the dealt hands are drawn from
DeckSize == 9

\* how many cards of DeckOrder the hands with one damaged card are built from
DamagedDeckSize == 5

\* the largest number of players of a tree (tree_infos["plrs"])
MaxPlayers == 3

\* the largest CacheSize a processor is configured with
MaxCapacity == 2

\* how many files may vanish from the tree folder
MaxRemovals == 1

\* the longest decision list encoded in SpecEncode
MaxDecisions == 2

\* the largest number of players of a tree in SpecScenario
MaxSeats == 6

\* ------------------------------------------------------------------------
\* hand_convert_helper.py: constants
\* ------------------------------------------------------------------------

RANK_ORDER ==
    [r \in {"A", "K", "Q", "J", "T", "9", "8", "7", "6", "5", "4", "3", "2"} |->
        CASE r = "A" -> 12 [] r = "K" -> 11 [] r = "Q" -> 10 [] r = "J" -> 9
          [] r = "T" -> 8 [] r = "9" -> 7 [] r = "8" -> 6 [] r = "7" -> 5
          [] r = "6" -> 4 [] r = "5" -> 3 [] r = "4" -> 2 [] r = "3" -> 1
          [] r = "2" -> 0]

RANKS == <<"A", "K", "Q", "J", "T", "9", "8", "7", "6", "5", "4", "3", "2">>

SUITS == <<"c", "d", "h", "s">>

\* iteration order of the dict literals {"s": .., "d": .., "h": .., "c": ..}
SuitDictOrder == <<"s", "d", "h", "c">>

Range(seq) == {seq[i] : i \in DOMAIN seq}

\* the outcome of a conversion that raises KeyError (RANK_ORDER[x], x no rank)
KeyErrorRaised == <<"!KeyError">>

\* the value of key before any conversion
NoKey == <<"!none">>

\* TreeReader.position = None
NoPosition == "!None"

\* no scenario call made yet
NoCall == [op |-> "none", pos |-> "", col |-> "", kind |-> "empty", prefix |-> <<>>,
           exc |-> "none", rows |-> <<>>]

\* no lookup made yet
NoLookup == [done |-> FALSE]

\* no decision list is being encoded
NoEncoding ==
    /\ supplied = <<>>
    /\ proc_configs = <<>>
    /\ decisions = <<>>
    /\ sequence = <<>>
    /\ encoded = [name |-> <<>>, exists |-> FALSE]
    /\ estep = "idle"

\* ------------------------------------------------------------------------
\* Python's list.sort / sorted with a key: a stable sort.  Entries are
\* records [k |-> key tuple, v |-> item]; key tuples compare as tuples do.
\* ------------------------------------------------------------------------

TupleLess(a, b) ==
    \E i \in 1..Len(a) : a[i] < b[i] /\ \A j \in 1..(i - 1) : a[j] = b[j]

RECURSIVE SortedInsert(_, _)
SortedInsert(sorted, e) ==
    IF sorted = <<>> THEN <<e>>
    ELSE IF TupleLess(e.k, Head(sorted).k) THEN <<e>> \o sorted
    ELSE <<Head(sorted)>> \o SortedInsert(Tail(sorted), e)

RECURSIVE StableSort(_)
StableSort(es) ==
    IF es = <<>> THEN <<>>
    ELSE SortedInsert(StableSort(SubSeq(es, 1, Len(es) - 1)), es[Len(es)])

Values(es) == [i \in DOMAIN es |-> es[i].v]

\* sorted() left out: the ranks stay in the order of the hand
SortRanksAsc_hand_order(rs) == rs

\* sort a sequence of rank characters ascending by RANK_ORDER
SortRanksAsc(rs) == Values(StableSort([i \in DOMAIN rs |-> [k |-> <<RANK_ORDER[rs[i]]>>, v |-> rs[i]]]))

\* list.sort left out: the cards stay in the order of the hand
SortCardsAsc_hand_order(cs) == cs

\* sort a sequence of cards (two-character strings) ascending by the rank
SortCardsAsc(cs) == Values(StableSort([i \in DOMAIN cs |-> [k |-> <<RANK_ORDER[cs[i][1]]>>, v |-> cs[i]]]))

RECURSIVE Concat(_)
Concat(seqs) == IF seqs = <<>> THEN <<>> ELSE Head(seqs) \o Concat(Tail(seqs))

\* ------------------------------------------------------------------------
\* convert_holdem_hand
\* ------------------------------------------------------------------------

\* convert_holdem_hand without ranks.sort: the ranks stay in hand order
convert_holdem_hand_unsorted(h) ==
    IF Len(h) # 4 THEN h
    ELSE IF h[1] \notin DOMAIN RANK_ORDER \/ h[3] \notin DOMAIN RANK_ORDER THEN KeyErrorRaised
    ELSE IF h[1] = h[3] THEN <<h[1], h[1]>>
    ELSE IF h[2] = h[4] THEN <<h[1], h[3], "s">>
    ELSE <<h[1], h[3], "o">>

\* convert_holdem_hand with reverse=True dropped: the lower rank comes first
convert_holdem_hand_ascending(h) ==
    IF Len(h) # 4 THEN h
    ELSE IF h[1] \notin DOMAIN RANK_ORDER \/ h[3] \notin DOMAIN RANK_ORDER THEN KeyErrorRaised
    ELSE LET lo == IF RANK_ORDER[h[1]] <= RANK_ORDER[h[3]] THEN h[1] ELSE h[3]
             hi == IF RANK_ORDER[h[1]] <= RANK_ORDER[h[3]] THEN h[3] ELSE h[1]
         IN IF lo = hi THEN <<lo, lo>>
            ELSE IF h[2] = h[4] THEN <<lo, hi, "s">>
            ELSE <<lo, hi, "o">>

convert_holdem_hand(h) ==
    IF Len(h) # 4 THEN h
    ELSE LET ranks == <<h[1], h[3]>>
             suits == <<h[2], h[4]>>
         IN IF \E i \in 1..2 : ranks[i] \notin DOMAIN RANK_ORDER THEN KeyErrorRaised
            ELSE LET sorted == Values(StableSort(
                                   [i \in 1..2 |-> [k |-> <<0 - RANK_ORDER[ranks[i]]>>, v |-> ranks[i]]]))
                 IN IF sorted[1] = sorted[2] THEN <<sorted[1], sorted[1]>>
                    ELSE IF suits[1] = suits[2] THEN <<sorted[1], sorted[2], "s">>
                    ELSE <<sorted[1], sorted[2], "o">>

\* ------------------------------------------------------------------------
\* convert_omaha_hand
\* ------------------------------------------------------------------------

\* the cards of the sequence cards whose suit is s, in hand order
CardsOfSuit(cards, s) == SelectSeq(cards, LAMBDA c : c[2] = s)

convert_omaha_hand(h) ==
    IF Len(h) # 8 THEN h
    ELSE LET ranks == <<h[1], h[3], h[5], h[7]>>
             suits == <<h[2], h[4], h[6], h[8]>>
         IN IF \E i \in 1..4 : ranks[i] \notin Range(RANKS) THEN h
            ELSE IF \E i \in 1..4 : suits[i] \notin Range(SUITS) THEN h
            ELSE
              LET cards == <<SubSeq(h, 1, 2), SubSeq(h, 3, 4), SubSeq(h, 5, 6), SubSeq(h, 7, 8)>>
                  suit_count == [s \in Range(SuitDictOrder) |->
                                    Cardinality({i \in 1..4 : suits[i] = s})]
                  OfCount(n) == SelectSeq(SuitDictOrder, LAMBDA s : suit_count[s] = n)
                  cards_single_suit ==
                      Concat([i \in DOMAIN OfCount(1) |-> CardsOfSuit(cards, OfCount(1)[i])])
                  cards_two_suited ==
                      [i \in DOMAIN OfCount(2) |-> CardsOfSuit(cards, OfCount(2)[i])]
                  cards_three_suited ==
                      Concat([i \in DOMAIN OfCount(3) |-> CardsOfSuit(cards, OfCount(3)[i])])
                  cards_four_suited ==
                      Concat([i \in DOMAIN OfCount(4) |-> CardsOfSuit(cards, OfCount(4)[i])])
                  singles == SortCardsAsc(cards_single_suit)
                  pairsInner == [i \in DOMAIN cards_two_suited |-> SortCardsAsc(cards_two_suited[i])]
                  pairs == Values(StableSort(
                               [i \in DOMAIN pairsInner |->
                                   [k |-> <<RANK_ORDER[pairsInner[i][2][1]], RANK_ORDER[pairsInner[i][1][1]]>>,
                                    v |-> pairsInner[i]]]))
                  three == SortCardsAsc(cards_three_suited)
                  four == SortCardsAsc(cards_four_suited)
              IN  [i \in DOMAIN singles |-> singles[i][1]]
                  \o Concat([i \in DOMAIN pairs |-> <<"(", pairs[i][1][1], pairs[i][2][1], ")">>])
                  \o (IF three # <<>> THEN <<"(", three[1][1], three[2][1], three[3][1], ")">> ELSE <<>>)
                  \o (IF four # <<>> THEN <<"(">> \o [i \in DOMAIN four |-> four[i][1]] \o <<")">> ELSE <<>>)

\* ------------------------------------------------------------------------
\* convert_omaha5_hand
\* ------------------------------------------------------------------------

convert_omaha5_hand(h) ==
    IF Len(h) # 8 /\ Len(h) # 10 THEN h
    ELSE LET ranks == SelectSeq(h, LAMBDA x : x \in Range(RANKS))
             suits == SelectSeq(h, LAMBDA x : x \in Range(SUITS))
         IN IF Len(ranks) \notin {4, 5} \/ Len(ranks) - Len(suits) # 0 THEN h
            ELSE
              LET cards == [i \in 1..(Len(h) \div 2) |-> SubSeq(h, 2 * i - 1, 2 * i)]
                  raw == [s \in Range(SuitDictOrder) |->
                             LET cs == CardsOfSuit(cards, s) IN [i \in DOMAIN cs |-> cs[i][1]]]
                  \* sorted(..., key=RANK_ORDER[x]) looks every member up
                  badKey == \E s \in Range(SuitDictOrder) :
                                \E i \in DOMAIN raw[s] : raw[s][i] \notin DOMAIN RANK_ORDER
              IN IF badKey THEN KeyErrorRaised
                 ELSE
                   LET suit_ranks == [s \in Range(SuitDictOrder) |-> SortRanksAsc(raw[s])]
                       one == SelectSeq(SuitDictOrder, LAMBDA s : Len(suit_ranks[s]) = 1)
                       more == SelectSeq(SuitDictOrder, LAMBDA s : Len(suit_ranks[s]) > 1)
                       unsuited_cards == [i \in DOMAIN one |-> suit_ranks[one[i]][1]]
                       suited_cards == [i \in DOMAIN more |-> suit_ranks[more[i]]]
                       unsuited_string == SortRanksAsc(unsuited_cards)
                       sorted_suited == Values(StableSort(
                                            [i \in DOMAIN suited_cards |->
                                                [k |-> <<RANK_ORDER[suited_cards[i][1]],
                                                         RANK_ORDER[suited_cards[i][2]]>>,
                                                 v |-> suited_cards[i]]]))
                       suited_string == Concat([i \in DOMAIN sorted_suited |->
                                                   <<"(">> \o sorted_suited[i] \o <<")">>])
                   IN unsuited_string \o suited_string

\* ------------------------------------------------------------------------
\* convert_hand
\* ------------------------------------------------------------------------

\* hand.replace(" ", "")
RemoveSpaces(h) == SelectSeq(h, LAMBDA x : x # " ")

convert_hand(h0) ==
    LET h == RemoveSpaces(h0)
    IN IF Len(h) = 8 THEN convert_omaha_hand(h)
       ELSE IF Len(h) = 4 THEN convert_holdem_hand(h)
       ELSE IF Len(h) = 10 THEN convert_omaha5_hand(h)
       ELSE h

\* ------------------------------------------------------------------------
\* The hands the conversions are applied to
\* ------------------------------------------------------------------------

\* the cards in the order in which the bounds admit them; a card is <<rank, suit>>
DeckOrder ==
    << <<"A", "s">>, <<"K", "s">>, <<"A", "h">>, <<"K", "h">>,
       <<"Q", "s">>, <<"Q", "h">>, <<"J", "s">>, <<"K", "d">>,
       <<"J", "c">>, <<"Q", "d">>, <<"A", "d">>, <<"A", "c">>,
       <<"J", "d">>, <<"K", "c">>, <<"J", "h">>, <<"Q", "c">> >>

Deck(n) == {DeckOrder[i] : i \in 1..(IF n < Len(DeckOrder) THEN n ELSE Len(DeckOrder))}

\* n distinct cards of the deck D in every order, written as one string
DealtHands(D, n) ==
    {Concat(f) : f \in {g \in [1..n -> D] : \A i, j \in 1..n : i # j => g[i] # g[j]}}

ValidHands(size) == DealtHands(Deck(size), 2) \cup DealtHands(Deck(size), 4)
                        \cup DealtHands(Deck(size), 5)

\* a Hold'em hand typed with a blank between the cards
SpacedHands(size) == {SubSeq(h, 1, 2) \o <<" ">> \o SubSeq(h, 3, 4) : h \in DealtHands(Deck(size), 2)}

\* what one card <<r, s>> can be damaged into: a character that is no rank at
\* the rank position, one that is no suit at the suit position, or both
DamagedCards(c) ==
    { <<"x", c[2]>>, <<"s", c[2]>>, <<c[1], "x">>, <<c[1], "A">>, <<c[2], c[1]>>, <<"x", "x">> }

DamagedHands(size) ==
    LET D == Deck(size)
        base == DealtHands(D, 2) \cup DealtHands(D, 4) \cup DealtHands(D, 5)
    IN UNION {
         UNION { { SubSeq(h, 1, 2 * i - 2) \o b \o SubSeq(h, 2 * i + 1, Len(h)) :
                     b \in DamagedCards(SubSeq(h, 2 * i - 1, 2 * i)) }
                 : i \in 1..(Len(h) \div 2) }
         : h \in base }

IsValidHand(h) ==
    /\ Len(h) \in {4, 8, 10}
    /\ \A i \in 1..Len(h) : IF i % 2 = 1 THEN h[i] \in Range(RANKS) ELSE h[i] \in Range(SUITS)

\* a string of 4, 8 or 10 characters with a character outside the alphabet of
\* its position
IsDamagedHand(h) ==
    /\ Len(h) \in {4, 8, 10}
    /\ \E i \in 1..Len(h) : IF i % 2 = 1 THEN h[i] \notin Range(RANKS) ELSE h[i] \notin Range(SUITS)

\* the hand with card groups i and i+1 exchanged
SwapCards(h, i) ==
    SubSeq(h, 1, 2 * i - 2) \o SubSeq(h, 2 * i + 1, 2 * i + 2)
        \o SubSeq(h, 2 * i - 1, 2 * i) \o SubSeq(h, 2 * i + 3, Len(h))

HandInit ==
    /\ hand \in ValidHands(DeckSize) \cup SpacedHands(DeckSize) \cup DamagedHands(DamagedDeckSize)
    /\ key = NoKey
    /\ key0 = NoKey
    /\ hstep = "dealt"
    /\ reordered = FALSE
    /\ cache_size = 0
    /\ fs = [corpus |-> "full", removed |-> {}]
    /\ CACHE = <<>>
    /\ position_list = <<>>
    /\ position = NoPosition
    /\ todo = <<>>
    /\ results = <<>>
    /\ ret = "returned"
    /\ call = NoCall
    /\ look = NoLookup
    /\ useOrder = <<>>
    /\ NoEncoding

\* one call of convert_hand on the dealt hand
ConvertHand ==
    /\ hstep = "dealt"
    /\ key' = convert_hand(hand)
    /\ key0' = key'
    /\ hstep' = "converted"
    /\ UNCHANGED <<hand, reordered, procVars, readerVars, lookVars, encVars>>

\* the same cards arrive in another order and are converted
ReorderCards ==
    /\ hstep = "converted"
    /\ IsValidHand(hand)
    /\ \E i \in 1..((Len(hand) \div 2) - 1) :
          /\ hand' = SwapCards(hand, i)
          /\ key' = convert_hand(hand')
    /\ reordered' = TRUE
    /\ UNCHANGED <<hstep, key0, procVars, readerVars, lookVars, encVars>>

HandNext == ConvertHand \/ ReorderCards

SpecHand == HandInit /\ [][HandNext]_vars

\* ========================================================================
\* tree_reader.py
\* ========================================================================

\* ------------------------------------------------------------------------
\* String operations of Python used by the engine
\* ------------------------------------------------------------------------

NL == "\n"

Whitespace == {" ", NL, "\t", "\r"}

\* needle in line
IsSubstring(needle, line) ==
    \E i \in 0..(Len(line) - Len(needle)) : SubSeq(line, i + 1, i + Len(needle)) = needle

RECURSIVE LStripSet(_, _)
LStripSet(str, chars) ==
    IF str # <<>> /\ Head(str) \in chars THEN LStripSet(Tail(str), chars) ELSE str

RECURSIVE RStripSet(_, _)
RStripSet(str, chars) ==
    IF str # <<>> /\ str[Len(str)] \in chars THEN RStripSet(SubSeq(str, 1, Len(str) - 1), chars)
    ELSE str

\* str.strip()
Strip(str) == RStripSet(LStripSet(str, Whitespace), Whitespace)

\* str.split(sep) for a one-character separator
RECURSIVE SplitAt(_, _, _)
SplitAt(str, sep, cur) ==
    IF str = <<>> THEN <<cur>>
    ELSE IF Head(str) = sep THEN <<cur>> \o SplitAt(Tail(str), sep, <<>>)
    ELSE SplitAt(Tail(str), sep, Append(cur, Head(str)))

Split(str, sep) == SplitAt(str, sep, <<>>)

\* float(token) for the numerals written in the range files of the model;
\* any other token raises ValueError
FloatValue == (<<"0">> :> 0) @@ (<<"1">> :> 1) @@ (<<"2">> :> 2)

IsFloat(tok) == tok \in DOMAIN FloatValue

\* ------------------------------------------------------------------------
\* Configuration (configs) and ActionProcessor.__init__
\* ------------------------------------------------------------------------

\* the characters of a configuration key, for setdefault(key, key)
NameChars ==
    ("Raise250" :> <<"R", "a", "i", "s", "e", "2", "5", "0">>)
    @@ ("Raise300" :> <<"R", "a", "i", "s", "e", "3", "0", "0">>)
    @@ ("Raise400" :> <<"R", "a", "i", "s", "e", "4", "0", "0">>)
    @@ ("RaisePot" :> <<"R", "a", "i", "s", "e", "P", "o", "t">>)
    @@ ("Raise" :> <<"R", "a", "i", "s", "e">>)

\* action.startswith("Raise") over the action names of the model
StartsWithRaise(action) == action \in {"Raise", "Raise250", "Raise300", "Raise400", "RaisePot"}

\* f"Raise{int(float(re.findall(r"\d+\.?\d*", raise_size)[0]) * 100)}" for the
\* ladder entries of the model; an entry without digits has no numeric part
RaiseKey == ("2.5" :> "Raise250") @@ ("3.0" :> "Raise300") @@ ("4.0" :> "Raise400")

HasNumericPart(raise_size) == raise_size \in DOMAIN RaiseKey

\* dict.setdefault
SetDefault(cfg, k, v) == IF k \in DOMAIN cfg THEN cfg ELSE cfg @@ (k :> v)

RECURSIVE SetRaiseDefaults(_, _)
SetRaiseDefaults(cfg, sizes) ==
    IF sizes = <<>> THEN cfg
    ELSE IF HasNumericPart(Head(sizes))
         THEN SetRaiseDefaults(SetDefault(cfg, RaiseKey[Head(sizes)], NameChars[RaiseKey[Head(sizes)]]),
                               Tail(sizes))
         ELSE SetRaiseDefaults(cfg, Tail(sizes))

\* the configs after ActionProcessor.__init__ ran on them
ProcessorConfigs(cfg) ==
    LET c1 == SetDefault(cfg, "Fold", <<"0">>)
        c2 == SetDefault(c1, "Call", <<"1">>)
        c3 == SetDefault(c2, "RaisePot", <<"2">>)
        c4 == SetDefault(c3, "All_In", <<"3">>)
        c5 == SetDefault(c4, "Ending", <<".", "r", "n", "g">>)
        c6 == SetDefault(c5, "RaiseSizeList", <<"2.5", "3.0", "4.0">>)
        c7 == SetDefault(c6, "ValidActions", <<"Fold", "Call", "Raise">>)
    IN SetRaiseDefaults(c7, c7["RaiseSizeList"])

\* the TreeReader section of the configuration file: the seats, the actions
\* and the ladder; the tokens are left to the defaults
SuppliedConfigs ==
    ("Positions" :> <<"BB", "SB", "BU", "CO", "MP", "UTG">>)
    @@ ("ValidActions" :> <<"Fold", "Call", "Raise">>)
    @@ ("RaiseSizeList" :> <<"2.5", "3.0">>)

\* ------------------------------------------------------------------------
\* ActionProcessor.get_action_sequence
\* ------------------------------------------------------------------------

\* the inner loop: index runs over range(len(plist)); st is
\* [full, start, folded]
\* the inner loop without position_already_folded: every pass folds the
\* seats it walks over
RECURSIVE RotateTo_folds_again(_, _, _, _)
RotateTo_folds_again(plist, action, index, st) ==
    IF index >= Len(plist) THEN st
    ELSE LET position_index == (index + st.start) % Len(plist)
             pos == plist[position_index + 1]
         IN IF pos # action[1]
            THEN RotateTo_folds_again(plist, action, index + 1,
                                      [st EXCEPT !.full = Append(@, <<pos, "Fold">>),
                                                 !.folded = @ \cup {pos}])
            ELSE [st EXCEPT !.full = Append(@, <<pos, action[2]>>),
                            !.start = position_index + 1]

RECURSIVE RotateTo(_, _, _, _)
RotateTo(plist, action, index, st) ==
    IF index >= Len(plist) THEN st
    ELSE LET position_index == (index + st.start) % Len(plist)
             pos == plist[position_index + 1]
         IN IF pos # action[1]
            THEN IF pos \notin st.folded
                 THEN RotateTo(plist, action, index + 1,
                               [st EXCEPT !.full = Append(@, <<pos, "Fold">>),
                                          !.folded = @ \cup {pos}])
                 ELSE RotateTo(plist, action, index + 1, st)
            ELSE [st EXCEPT !.full = Append(@, <<pos, action[2]>>),
                            !.start = position_index + 1]

RECURSIVE ActionSequenceFrom(_, _, _)
ActionSequenceFrom(plist, action_list, st) ==
    IF action_list = <<>> THEN st.full
    ELSE ActionSequenceFrom(plist, Tail(action_list),
                            RotateTo(plist, Head(action_list), 0, st))

get_action_sequence(plist, action_list) ==
    ActionSequenceFrom(plist, action_list, [full |-> <<>>, start |-> 0, folded |-> {}])

\* ------------------------------------------------------------------------
\* ActionProcessor.find_valid_raise_sizes
\* ------------------------------------------------------------------------

\* the entries appended for one abstract Raise of seat pos: the key of the
\* first ladder size with a numeric part, or nothing
\* the loop without its break: every ladder size with a numeric part appends
\* an entry
RECURSIVE FirstRaiseSize_no_break(_, _)
FirstRaiseSize_no_break(sizes, pos) ==
    IF sizes = <<>> THEN <<>>
    ELSE (IF HasNumericPart(Head(sizes)) THEN << <<pos, RaiseKey[Head(sizes)]>> >> ELSE <<>>)
         \o FirstRaiseSize_no_break(Tail(sizes), pos)

RECURSIVE FirstRaiseSize(_, _)
FirstRaiseSize(sizes, pos) ==
    IF sizes = <<>> THEN <<>>
    ELSE IF HasNumericPart(Head(sizes)) THEN << <<pos, RaiseKey[Head(sizes)]>> >>
    ELSE FirstRaiseSize(Tail(sizes), pos)

RECURSIVE find_valid_raise_sizes(_, _)
find_valid_raise_sizes(cfg, full_action_sequence) ==
    IF full_action_sequence = <<>> THEN <<>>
    ELSE LET action == Head(full_action_sequence)
         IN (IF action[2] # "Raise" THEN <<action>>
             ELSE FirstRaiseSize(cfg["RaiseSizeList"], action[1]))
            \o find_valid_raise_sizes(cfg, Tail(full_action_sequence))

\* ------------------------------------------------------------------------
\* ActionProcessor.get_filename
\* ------------------------------------------------------------------------

\* [name, cfg, failed]: the text built so far, the configs (a Raise key is
\* inserted on first use) and whether a token was missing
RECURSIVE FilenameFrom(_, _)
FilenameFrom(action_sequence, st) ==
    IF action_sequence = <<>> \/ st.failed THEN st
    ELSE LET action == Head(action_sequence)[2]
             cfg1 == IF StartsWithRaise(action) /\ action \notin DOMAIN st.cfg
                     THEN st.cfg @@ (action :> NameChars[action])
                     ELSE st.cfg
         IN IF action \notin DOMAIN cfg1
            THEN [st EXCEPT !.cfg = cfg1, !.failed = TRUE]
            ELSE FilenameFrom(Tail(action_sequence),
                              [name |-> st.name \o <<".">> \o cfg1[action], cfg |-> cfg1, failed |-> FALSE])

get_filename(cfg, action_sequence) ==
    LET st == FilenameFrom(action_sequence, [name |-> <<>>, cfg |-> cfg, failed |-> FALSE])
    IN IF st.failed THEN <<>> ELSE LStripSet(st.name, {"."}) \o st.cfg["Ending"]

\* the configs as get_filename leaves them
ConfigsAfterFilename(cfg, action_sequence) ==
    FilenameFrom(action_sequence, [name |-> <<>>, cfg |-> cfg, failed |-> FALSE]).cfg

\* ------------------------------------------------------------------------
\* The range files in the tree folder
\* ------------------------------------------------------------------------

RangeFold ==
    << <<"A", "K", "s", NL>>, <<"0", ";", "0", NL>>,
       <<"A", "A", NL>>, <<"0", ";", "0", NL>> >>

RangeCall ==
    << <<"A", "K", "s", NL>>, <<"1", ";", "1", NL>>,
       <<"A", "A", NL>>, <<"0", ";", "2", NL>> >>

\* the hand AKs is listed twice and the last line has no line end
RangeRaise ==
    << <<"A", "A", NL>>, <<"1", ";", "2", NL>>,
       <<"A", "K", "s", NL>>, <<"0", ";", "1", NL>>,
       <<"A", "K", "s", NL>>, <<"2", ";", "0">> >>

\* the token of the last action of a file name (between the last "." before
\* the extension and the extension)
RECURSIVE AfterLastDot(_)
AfterLastDot(str) ==
    IF \A i \in DOMAIN str : str[i] # "." THEN str
    ELSE AfterLastDot(Tail(str))

LastToken(path) == AfterLastDot(SubSeq(path, 1, Len(path) - 4))

\* dir is [corpus, removed]: which files the solver wrote, and which of them
\* were deleted since
FileExists(dir, path) ==
    /\ Len(path) > 4
    /\ path \notin dir.removed
    /\ dir.corpus = "nofold" => LastToken(path) # <<"0">>

FileLines(path) ==
    IF LastToken(path) = <<"0">> THEN RangeFold
    ELSE IF LastToken(path) = <<"1">> THEN RangeCall
    ELSE RangeRaise

\* ------------------------------------------------------------------------
\* Outcomes of a lookup
\* ------------------------------------------------------------------------

ZeroRow == <<"", 0, 0>>

Returned(row) == [exc |-> "none", row |-> row]

Raised(e) == [exc |-> e, row |-> <<>>]

\* infos = info_line.split(";"); float(infos[0]); float(infos[1]);
\* action_sequence[-1][1]
ParseRow(info_line, action_sequence) ==
    LET infos == Split(info_line, ";")
    IN IF ~IsFloat(infos[1]) THEN Raised("ValueError")
       ELSE IF Len(infos) < 2 THEN Raised("IndexError")
       ELSE IF ~IsFloat(infos[2]) THEN Raised("ValueError")
       ELSE IF action_sequence = <<>> THEN Raised("IndexError")
       ELSE Returned(<<action_sequence[Len(action_sequence)][2],
                       FloatValue[infos[1]], FloatValue[infos[2]]>>)

\* ------------------------------------------------------------------------
\* ActionProcessor.read_file_into_hash
\* ------------------------------------------------------------------------

\* the dict built from the lines: line 2j-1 is the hand, line 2j its info; a
\* hand listed again overwrites; a last hand line without info is dropped
HashOfLines(lines) ==
    LET pairs == {j \in 1..(Len(lines) \div 2) : TRUE}
        hands == {Strip(lines[2 * j - 1]) : j \in pairs}
    IN [h \in hands |->
          LET last == CHOOSE j \in pairs :
                         /\ Strip(lines[2 * j - 1]) = h
                         /\ \A m \in pairs : Strip(lines[2 * m - 1]) = h => m <= j
          IN Strip(lines[2 * last])]

EmptyHash == [h \in {} |-> <<>>]

read_file_into_hash(dir, filename) ==
    IF FileExists(dir, filename) THEN HashOfLines(FileLines(filename)) ELSE EmptyHash

\* ------------------------------------------------------------------------
\* ActionProcessor.read_hand
\* ------------------------------------------------------------------------

\* hand + "\n" in line and len(line) < 12
LineMatches(h, line) == IsSubstring(h \o <<NL>>, line) /\ Len(line) < 12

\* read_hand without its except clause
read_hand_uncaught(cfg, dir, h, action_sequence) ==
    LET filename == get_filename(cfg, action_sequence)
    IN IF ~FileExists(dir, filename) THEN Raised("FileNotFoundError")
       ELSE LET lines == FileLines(filename)
                hits == {i \in DOMAIN lines : LineMatches(h, lines[i])}
            IN IF hits = {} THEN Returned(ZeroRow)
               ELSE LET i == CHOOSE n \in hits : \A m \in hits : n <= m
                        info_line == IF i + 1 <= Len(lines) THEN Strip(lines[i + 1]) ELSE <<>>
                    IN ParseRow(info_line, action_sequence)

read_hand(cfg, dir, h, action_sequence) ==
    LET filename == get_filename(cfg, action_sequence)
    IN IF ~FileExists(dir, filename) THEN Returned(ZeroRow)
       ELSE LET lines == FileLines(filename)
                hits == {i \in DOMAIN lines : LineMatches(h, lines[i])}
            IN IF hits = {} THEN Returned(ZeroRow)
               ELSE LET i == CHOOSE n \in hits : \A m \in hits : n <= m
                        info_line == IF i + 1 <= Len(lines) THEN Strip(lines[i + 1]) ELSE <<>>
                    IN ParseRow(info_line, action_sequence)

\* ------------------------------------------------------------------------
\* ActionProcessor.read_hand_with_cache
\* ------------------------------------------------------------------------

CachePaths(cache) == {cache[i].path : i \in DOMAIN cache}

CacheTable(cache, path) == (CHOOSE e \in Range(cache) : e.path = path).table

\* the CACHE after the lookup of filename by a processor of capacity size;
\* popitem on an empty dict raises KeyError before anything is stored
\* CacheAfter with a hit that reads the file again and replaces the table
CacheAfter_reads_again(cache, size, dir, filename) ==
    IF filename \in CachePaths(cache)
    THEN [i \in DOMAIN cache |->
             IF cache[i].path = filename
             THEN [path |-> filename, table |-> read_file_into_hash(dir, filename)]
             ELSE cache[i]]
    ELSE LET kept == IF Len(cache) >= size THEN Tail(cache) ELSE cache
         IN Append(kept, [path |-> filename, table |-> read_file_into_hash(dir, filename)])

CacheAfter(cache, size, dir, filename) ==
    IF filename \in CachePaths(cache) THEN cache
    ELSE LET kept == IF Len(cache) >= size THEN Tail(cache) ELSE cache
         IN Append(kept, [path |-> filename, table |-> read_file_into_hash(dir, filename)])

PopsEmpty(cache, size, filename) ==
    filename \notin CachePaths(cache) /\ Len(cache) >= size /\ cache = <<>>

read_hand_with_cache(cfg, cache, size, dir, h, action_sequence) ==
    LET filename == get_filename(cfg, action_sequence)
    IN IF PopsEmpty(cache, size, filename) THEN Raised("KeyError")
       ELSE LET table == CacheTable(CacheAfter(cache, size, dir, filename), filename)
            IN IF h \notin DOMAIN table \/ table[h] = <<>> THEN Returned(ZeroRow)
               ELSE ParseRow(table[h], action_sequence)

\* ------------------------------------------------------------------------
\* ActionProcessor.test_action_sequence and ActionProcessor.get_results
\* ------------------------------------------------------------------------

test_action_sequence(cfg, dir, action_sequence) ==
    FileExists(dir, get_filename(cfg, action_sequence))

\* the resolved sequence get_results builds for one action of ValidActions
ResolvedSequence(cfg, plist, action_before_list, pos, action) ==
    find_valid_raise_sizes(cfg,
        get_action_sequence(plist, Append(action_before_list, <<pos, action>>)))

\* the loop over ValidActions; st is [exc, rows, cache]; an exception ends it
RECURSIVE ResultsFrom(_, _, _, _, _, _, _, _)
ResultsFrom(cfg, size, dir, plist, h, action_before_list, pos, stActs) ==
    LET st == stActs[1]
        actions == stActs[2]
    IN IF actions = <<>> \/ st.exc # "none" THEN st
       ELSE LET full_action_sequence ==
                    ResolvedSequence(cfg, plist, action_before_list, pos, Head(actions))
                filename == get_filename(cfg, full_action_sequence)
            IN IF ~test_action_sequence(cfg, dir, full_action_sequence)
               THEN ResultsFrom(cfg, size, dir, plist, h, action_before_list, pos,
                                <<st, Tail(actions)>>)
               ELSE LET result == IF size = 0
                                  THEN read_hand(cfg, dir, h, full_action_sequence)
                                  ELSE read_hand_with_cache(cfg, st.cache, size, dir, h, full_action_sequence)
                        cache1 == IF size = 0 \/ PopsEmpty(st.cache, size, filename) THEN st.cache
                                  ELSE CacheAfter(st.cache, size, dir, filename)
                    IN ResultsFrom(cfg, size, dir, plist, h, action_before_list, pos,
                                   << [exc |-> result.exc,
                                       rows |-> IF result.exc = "none" THEN Append(st.rows, result.row)
                                                ELSE st.rows,
                                       cache |-> cache1],
                                      Tail(actions) >>)

\* ActionProcessor.get_results: [exc, rows, cache]
get_results(cfg, cache, size, dir, plist, h, action_before_list, pos) ==
    IF pos \notin Range(plist) THEN [exc |-> "none", rows |-> <<>>, cache |-> cache]
    ELSE LET converted == convert_hand(h)
         IN IF converted = KeyErrorRaised THEN [exc |-> "KeyError", rows |-> <<>>, cache |-> cache]
            ELSE ResultsFrom(cfg, size, dir, plist, converted, action_before_list, pos,
                             << [exc |-> "none", rows |-> <<>>, cache |-> cache], cfg["ValidActions"] >>)

\* ------------------------------------------------------------------------
\* TreeReader: the seats and the scenario rules.  A rule yields what it does:
\* return [] at once, raise, or call ActionProcessor.get_results with a prefix
\* ------------------------------------------------------------------------

\* TreeReader.init_position_list: the first num_players seats, reversed
init_position_list(num_players, positions) ==
    LET n == IF num_players > Len(positions) THEN Len(positions) ELSE num_players
    IN [i \in 1..n |-> positions[n + 1 - i]]

ReturnsEmpty == [kind |-> "empty", prefix |-> <<>>, exc |-> "none"]

RaisesError(e) == [kind |-> "raise", prefix |-> <<>>, exc |-> e]

Calls(prefix) == [kind |-> "call", prefix |-> prefix, exc |-> "none"]

\* list.index(x), counted from 0
IndexOf(list, x) == (CHOOSE i \in DOMAIN list : list[i] = x /\ \A j \in 1..(i - 1) : list[j] # x) - 1

\* list[i] with Python's index counted from 0; negative indices count from the end
At(list, i) == IF i < 0 THEN list[Len(list) + i + 1] ELSE list[i + 1]

InRange(list, i) == i < Len(list) /\ i >= 0 - Len(list)

\* the first-in cell without the test for BB
first_in_no_limp(pos) == Calls(<<>>)

\* the first-in cell of fill_default_results and fill_position_results
first_in(pos) ==
    IF pos # "BB" THEN Calls(<<>>) ELSE Calls(<< <<"SB", "Call">> >>)

\* get_vs_first_in without its last line: the opener's raise is the whole
\* prefix wherever the analysed seat sits
get_vs_first_in_opener_only(plist, pos, fi_position) ==
    IF pos \notin Range(plist) \/ fi_position \notin Range(plist) THEN ReturnsEmpty
    ELSE IF pos = fi_position THEN ReturnsEmpty
    ELSE Calls(<< <<fi_position, "Raise">> >>)

get_vs_first_in(plist, pos, fi_position) ==
    IF pos \notin Range(plist) \/ fi_position \notin Range(plist) THEN ReturnsEmpty
    ELSE IF pos = fi_position THEN ReturnsEmpty
    ELSE IF IndexOf(plist, pos) > IndexOf(plist, fi_position)
         THEN Calls(<< <<fi_position, "Raise">> >>)
    ELSE Calls(<< <<pos, "Raise">>, <<fi_position, "Raise">> >>)

\* get_vs_4bet with the opener's raise left out of the prefix
get_vs_4bet_two_raises(plist, pos, reraise_position) ==
    IF pos \notin Range(plist) THEN RaisesError("ValueError")
    ELSE LET pos_index == IndexOf(plist, pos)
         IN IF pos = reraise_position \/ pos_index = 0 THEN ReturnsEmpty
            ELSE IF reraise_position \notin Range(plist) THEN RaisesError("ValueError")
            ELSE Calls(<< <<pos, "Raise">>, <<reraise_position, "Raise">> >>)

\* get_vs_4bet without the test for the first seat: the index -1 wraps to
\* the last seat
get_vs_4bet_first_seat(plist, pos, reraise_position) ==
    IF pos \notin Range(plist) THEN RaisesError("ValueError")
    ELSE LET pos_index == IndexOf(plist, pos)
         IN IF pos = reraise_position THEN ReturnsEmpty
            ELSE IF reraise_position \notin Range(plist) THEN RaisesError("ValueError")
            ELSE IF pos_index > IndexOf(plist, reraise_position)
                 THEN Calls(<< <<reraise_position, "Raise">>, <<pos, "Raise">>,
                               <<reraise_position, "Raise">> >>)
            ELSE Calls(<< <<At(plist, pos_index - 1), "Raise">>, <<pos, "Raise">>,
                          <<reraise_position, "Raise">> >>)

get_vs_4bet(plist, pos, reraise_position) ==
    IF pos \notin Range(plist) THEN RaisesError("ValueError")
    ELSE LET pos_index == IndexOf(plist, pos)
         IN IF pos = reraise_position \/ pos_index = 0 THEN ReturnsEmpty
            ELSE IF reraise_position \notin Range(plist) THEN RaisesError("ValueError")
            ELSE IF pos_index > IndexOf(plist, reraise_position)
                 THEN Calls(<< <<reraise_position, "Raise">>, <<pos, "Raise">>,
                               <<reraise_position, "Raise">> >>)
            ELSE IF ~InRange(plist, pos_index - 1) THEN RaisesError("IndexError")
            ELSE Calls(<< <<At(plist, pos_index - 1), "Raise">>, <<pos, "Raise">>,
                          <<reraise_position, "Raise">> >>)

\* get_4bet with the analysed seat as the opener of the cold 4bet spot
get_4bet_own_open(plist, pos, threebet_position) ==
    IF pos \notin Range(plist) \/ threebet_position \notin Range(plist)
    THEN RaisesError("ValueError")
    ELSE LET pos_index == IndexOf(plist, pos)
             threebet_pos_index == IndexOf(plist, threebet_position)
         IN IF pos = threebet_position THEN ReturnsEmpty
            ELSE IF pos_index > threebet_pos_index /\ threebet_pos_index = 0 THEN ReturnsEmpty
            ELSE Calls(<< <<pos, "Raise">>, <<threebet_position, "Raise">> >>)

\* get_4bet without the test for a 3-bet of the first seat: the index -1
\* wraps to the last seat
get_4bet_wraps(plist, pos, threebet_position) ==
    IF pos \notin Range(plist) \/ threebet_position \notin Range(plist)
    THEN RaisesError("ValueError")
    ELSE LET pos_index == IndexOf(plist, pos)
             threebet_pos_index == IndexOf(plist, threebet_position)
         IN IF pos = threebet_position THEN ReturnsEmpty
            ELSE IF pos_index > threebet_pos_index
                 THEN Calls(<< <<At(plist, threebet_pos_index - 1), "Raise">>,
                               <<threebet_position, "Raise">> >>)
            ELSE Calls(<< <<pos, "Raise">>, <<threebet_position, "Raise">> >>)

get_4bet(plist, pos, threebet_position) ==
    IF pos \notin Range(plist) \/ threebet_position \notin Range(plist)
    THEN RaisesError("ValueError")
    ELSE LET pos_index == IndexOf(plist, pos)
             threebet_pos_index == IndexOf(plist, threebet_position)
         IN IF pos = threebet_position THEN ReturnsEmpty
            ELSE IF pos_index > threebet_pos_index
                 THEN IF threebet_pos_index = 0 THEN ReturnsEmpty
                      ELSE IF ~InRange(plist, threebet_pos_index - 1) THEN RaisesError("IndexError")
                      ELSE Calls(<< <<At(plist, threebet_pos_index - 1), "Raise">>,
                                    <<threebet_position, "Raise">> >>)
            ELSE Calls(<< <<pos, "Raise">>, <<threebet_position, "Raise">> >>)

\* get_squeeze with the caller taken two seats after the raiser
get_squeeze_far_caller(plist, pos, rfi_position) ==
    IF pos \notin Range(plist) \/ rfi_position \notin Range(plist)
    THEN RaisesError("ValueError")
    ELSE LET pos_index == IndexOf(plist, pos)
             rfi_index == IndexOf(plist, rfi_position)
         IN IF pos_index <= rfi_index + 1 THEN ReturnsEmpty
            ELSE IF ~InRange(plist, rfi_index + 2) THEN RaisesError("IndexError")
            ELSE Calls(<< <<rfi_position, "Raise">>, <<At(plist, rfi_index + 2), "Call">> >>)

get_squeeze(plist, pos, rfi_position) ==
    IF pos \notin Range(plist) \/ rfi_position \notin Range(plist)
    THEN RaisesError("ValueError")
    ELSE LET pos_index == IndexOf(plist, pos)
             rfi_index == IndexOf(plist, rfi_position)
         IN IF pos_index <= rfi_index + 1 THEN ReturnsEmpty
            ELSE IF ~InRange(plist, rfi_index + 1) THEN RaisesError("IndexError")
            ELSE Calls(<< <<rfi_position, "Raise">>, <<At(plist, rfi_index + 1), "Call">> >>)

\* get_vs_squeeze with the squeezer's raise appended to the prefix
get_vs_squeeze_with_squeezer(plist, pos, squeeze_position) ==
    IF pos \notin Range(plist) \/ squeeze_position \notin Range(plist)
    THEN RaisesError("ValueError")
    ELSE LET pos_index == IndexOf(plist, pos)
             squeeze_index == IndexOf(plist, squeeze_position)
         IN IF squeeze_index <= pos_index + 1 THEN ReturnsEmpty
            ELSE IF ~InRange(plist, pos_index + 1) THEN RaisesError("IndexError")
            ELSE Calls(<< <<pos, "Raise">>, <<At(plist, pos_index + 1), "Call">>,
                          <<squeeze_position, "Raise">> >>)

get_vs_squeeze(plist, pos, squeeze_position) ==
    IF pos \notin Range(plist) \/ squeeze_position \notin Range(plist)
    THEN RaisesError("ValueError")
    ELSE LET pos_index == IndexOf(plist, pos)
             squeeze_index == IndexOf(plist, squeeze_position)
         IN IF squeeze_index <= pos_index + 1 THEN ReturnsEmpty
            ELSE IF ~InRange(plist, pos_index + 1) THEN RaisesError("IndexError")
            ELSE Calls(<< <<pos, "Raise">>, <<At(plist, pos_index + 1), "Call">> >>)

\* ------------------------------------------------------------------------
\* The session: one TreeReader, constructed for a hand, a seat and a tree,
\* whose get_results fills the grid cell by cell (Spec)
\* ------------------------------------------------------------------------

\* the configs every processor of the model works with
configs == ProcessorConfigs(SuppliedConfigs)

full_position_list == configs["Positions"]

Capacities == 0..MaxCapacity

\* the hands of a session: AKs and AA are listed in the files, KK is not, and
\* Ks is the selection after one card of two
EngineHands ==
    { <<"A", "s", "K", "s">>, <<"A", "s", "A", "h">>, <<"K", "h", "K", "s">>, <<"K", "s">> }

\* the seat names a reader is constructed with; X is no seat of the configuration
SeatNames == Range(full_position_list) \cup {"X"}

Cell(op, pos, col) == [op |-> op, pos |-> pos, col |-> col]

CellsOver(op, pos, cols) == [i \in DOMAIN cols |-> Cell(op, pos, cols[i])]

\* TreeReader.fill_position_results and add_special_lines: the calls in order
PositionCells(plist, pos) ==
    << Cell("first_in", pos, pos) >>
    \o CellsOver("vs_first_in", pos, plist)
    \o (IF pos = "SB" THEN CellsOver("after_limp", pos, SelectSeq(plist, LAMBDA c : c = "BB")) ELSE <<>>)
    \o CellsOver("squeeze", pos, plist)
    \o CellsOver("4bet", pos, plist)
    \o CellsOver("vs_4bet", pos, plist)
    \o CellsOver("vs_squeeze", pos, plist)

\* TreeReader.fill_default_results: the calls in order
DefaultCells(plist) ==
    Concat([i \in DOMAIN plist |->
               << Cell("first_in", plist[i], plist[i]) >> \o CellsOver("vs_first_in", plist[i], plist)])

\* what the call of one cell does
RuleOf(plist, c) ==
    CASE c.op = "first_in" -> first_in(c.pos)
      [] c.op = "vs_first_in" -> get_vs_first_in(plist, c.pos, c.col)
      [] c.op = "after_limp" -> Calls(<< <<"SB", "Call">>, <<"BB", "Raise">> >>)
      [] c.op = "squeeze" -> get_squeeze(plist, c.pos, c.col)
      [] c.op = "4bet" -> get_4bet(plist, c.pos, c.col)
      [] c.op = "vs_4bet" -> get_vs_4bet(plist, c.pos, c.col)
      [] c.op = "vs_squeeze" -> get_vs_squeeze(plist, c.pos, c.col)

\* TreeReader.__init__ followed by the start of TreeReader.get_results
Init ==
    /\ hand \in EngineHands
    /\ key = NoKey
    /\ key0 = NoKey
    /\ hstep = "dealt"
    /\ reordered = FALSE
    /\ cache_size \in Capacities
    /\ fs \in {[corpus |-> c, removed |-> {}] : c \in {"full", "nofold"}}
    /\ CACHE = <<>>
    /\ \E num_players \in 2..MaxPlayers : position_list = init_position_list(num_players, full_position_list)
    /\ \E seat \in SeatNames :
          position = IF seat \notin Range(full_position_list) THEN NoPosition ELSE seat
    /\ todo = IF position # NoPosition THEN PositionCells(position_list, position)
              ELSE DefaultCells(position_list)
    /\ results = <<>>
    /\ ret = "running"
    /\ call = NoCall
    /\ look = NoLookup
    /\ useOrder = <<>>
    /\ NoEncoding

\* one cell of the grid: the scenario rule and, when it calls,
\* ActionProcessor.get_results; an exception leaves TreeReader.get_results
FillCell(op) ==
    /\ ret = "running"
    /\ todo # <<>>
    /\ Head(todo).op = op
    /\ LET c == Head(todo)
           rule == RuleOf(position_list, c)
           got == IF rule.kind = "call"
                  THEN get_results(configs, CACHE, cache_size, fs, position_list, hand, rule.prefix, c.pos)
                  ELSE [exc |-> rule.exc, rows |-> <<>>, cache |-> CACHE]
       IN /\ call' = [op |-> c.op, pos |-> c.pos, col |-> c.col, kind |-> rule.kind,
                      prefix |-> rule.prefix, exc |-> got.exc, rows |-> got.rows]
          /\ CACHE' = got.cache
          /\ IF got.exc # "none"
             THEN /\ ret' = "raised"
                  /\ UNCHANGED <<todo, results>>
             ELSE /\ results' = Append(results, [op |-> c.op, pos |-> c.pos, col |-> c.col, rows |-> got.rows])
                  /\ todo' = Tail(todo)
                  /\ UNCHANGED ret
    /\ UNCHANGED <<handVars, cache_size, fs, position_list, position, lookVars, encVars>>

FirstInCell == FillCell("first_in")

VsFirstInCell == FillCell("vs_first_in")

AfterLimpCell == FillCell("after_limp")

SqueezeCell == FillCell("squeeze")

FourBetCell == FillCell("4bet")

VsFourBetCell == FillCell("vs_4bet")

VsSqueezeCell == FillCell("vs_squeeze")

\* TreeReader.get_results returns the grid
ReturnResults ==
    /\ ret = "running"
    /\ todo = <<>>
    /\ ret' = "returned"
    /\ UNCHANGED <<handVars, procVars, position_list, position, todo, results, call, lookVars, encVars>>

Next ==
    \/ FirstInCell
    \/ VsFirstInCell
    \/ AfterLimpCell
    \/ SqueezeCell
    \/ FourBetCell
    \/ VsFourBetCell
    \/ VsSqueezeCell
    \/ ReturnResults

Spec == Init /\ [][Next]_vars

\* ------------------------------------------------------------------------
\* The lookups of single files by processors of different capacities that
\* share CACHE (SpecCache): the body of the loop of ActionProcessor.get_results
\* ------------------------------------------------------------------------

\* decision lists (prefix and the analysed seat's action) on the seats SB, BB
LookupDecisions ==
    << << <<"SB", "Fold">> >>,
       << <<"SB", "Call">> >>,
       << <<"SB", "Raise">> >> >>

LookupSequences ==
    { find_valid_raise_sizes(configs, get_action_sequence(<<"SB", "BB">>, LookupDecisions[i])) :
        i \in DOMAIN LookupDecisions }

\* the hands looked up: as in a session, and the empty and the one-character
\* string, which convert_hand hands back as they are
LookupHands == { <<"A", "s", "K", "s">>, <<"K", "s">>, <<>>, <<"2">> }

NoRow == [exc |-> "none", row |-> <<>>]

NoPath == <<>>

CacheInit ==
    /\ hand = <<>>
    /\ key = NoKey
    /\ key0 = NoKey
    /\ hstep = "dealt"
    /\ reordered = FALSE
    /\ cache_size \in Capacities
    /\ fs = [corpus |-> "full", removed |-> {}]
    /\ CACHE = <<>>
    /\ position_list = <<"SB", "BB">>
    /\ position = NoPosition
    /\ todo = <<>>
    /\ results = <<>>
    /\ ret = "returned"
    /\ call = NoCall
    /\ look = NoLookup
    /\ useOrder = <<>>
    /\ NoEncoding

\* ActionProcessor.__init__: another processor, with its own CacheSize
NewProcessor ==
    /\ \E c \in Capacities : c # cache_size /\ cache_size' = c
    /\ UNCHANGED <<handVars, fs, CACHE, readerVars, lookVars, encVars>>

\* one pass of the loop of get_results for the hand h and the resolved
\* sequence seq: the existence test, then read_hand or read_hand_with_cache;
\* with vanish the file is deleted between the two
LookupStep(h, seq, vanish) ==
    LET k == convert_hand(h)
        filename == get_filename(configs, seq)
        tested == test_action_sequence(configs, fs, seq)
        fsRead == IF vanish THEN [fs EXCEPT !.removed = @ \cup {filename}] ELSE fs
        hit == filename \in CachePaths(CACHE)
        evicts == ~hit /\ Len(CACHE) >= cache_size /\ CACHE # <<>>
        result == IF ~tested THEN NoRow
                  ELSE IF cache_size = 0 THEN read_hand(configs, fsRead, k, seq)
                  ELSE read_hand_with_cache(configs, CACHE, cache_size, fsRead, k, seq)
        cached == tested /\ cache_size # 0 /\ ~PopsEmpty(CACHE, cache_size, filename)
    IN /\ hand' = h
       /\ fs' = fsRead
       /\ CACHE' = IF cached THEN CacheAfter(CACHE, cache_size, fsRead, filename) ELSE CACHE
       /\ useOrder' = IF cached
                      THEN SelectSeq(useOrder,
                               LAMBDA q : q # filename /\ (evicts => q # Head(CACHE).path))
                           \o <<filename>>
                      ELSE useOrder
       /\ look' = [done |-> TRUE, path |-> filename, key |-> k, size |-> cache_size,
                   tested |-> tested, atRead |-> FileExists(fsRead, filename),
                   hit |-> cached /\ hit,
                   opens |-> IF ~tested \/ (cached /\ hit) THEN 0 ELSE 1,
                   result |-> result,
                   added |-> cached /\ ~hit,
                   evicted |-> IF cached /\ evicts THEN Head(CACHE).path ELSE NoPath,
                   lru |-> IF cached /\ evicts THEN Head(useOrder) ELSE NoPath]
       /\ UNCHANGED <<key, key0, hstep, reordered, cache_size, readerVars, encVars>>

\* a lookup over a corpus that does not change
Lookup ==
    \E h \in LookupHands, seq \in LookupSequences : LookupStep(h, seq, FALSE)

CacheNext == NewProcessor \/ Lookup

SpecCache == CacheInit /\ [][CacheNext]_vars

\* ------------------------------------------------------------------------
\* Lookups while range files go missing (SpecFiles)
\* ------------------------------------------------------------------------

FileSequences ==
    { find_valid_raise_sizes(configs, get_action_sequence(<<"SB", "BB">>, LookupDecisions[i])) :
        i \in {1, 3} }

\* a hand the files list and a hand they do not
FileHands == { <<"A", "s", "K", "s">>, <<"K", "h", "K", "s">> }

\* a lookup of a file that is there at the existence test and at the read,
\* or is missing from the folder
LookupFile ==
    \E h \in FileHands, seq \in FileSequences : LookupStep(h, seq, FALSE)

\* a lookup during which the file is deleted after the existence test and
\* before the read
LookupVanishingFile ==
    \E h \in FileHands, seq \in FileSequences :
        /\ test_action_sequence(configs, fs, seq)
        /\ Cardinality(fs.removed) < MaxRemovals
        /\ LookupStep(h, seq, TRUE)

FilesNext == NewProcessor \/ LookupFile \/ LookupVanishingFile

SpecFiles == CacheInit /\ [][FilesNext]_vars

\* ------------------------------------------------------------------------
\* The encoding of one decision list by a processor constructed on the
\* supplied configs (SpecEncode): __init__, get_action_sequence,
\* find_valid_raise_sizes, test_action_sequence with get_filename
\* ------------------------------------------------------------------------

\* the key is not in the supplied configs
NoToken == <<"!unset">>

\* the ladders supplied: pot has no numeric part
EncodeLadders == { <<"2.5">>, <<"2.5", "3.0">>, <<"pot", "3.0">>, <<"pot">> }

\* the tokens supplied for Fold and for Call
FoldTokens == { NoToken, <<>>, <<".", "f">>, <<"F">> }

CallTokens == { NoToken, <<"c">> }

WithToken(cfg, k, token) == IF token = NoToken THEN cfg ELSE cfg @@ (k :> token)

EncodeConfigs ==
    { WithToken(WithToken(
          ("Positions" :> SuppliedConfigs["Positions"])
          @@ ("ValidActions" :> SuppliedConfigs["ValidActions"])
          @@ ("RaiseSizeList" :> ladder), "Fold", f), "Call", c) :
        ladder \in EncodeLadders, f \in FoldTokens, c \in CallTokens }

\* the actions of a decision list: Raise400 is on no ladder supplied and
\* Check has no token
EncodeActions == {"Fold", "Call", "Raise", "Raise400", "Check"}

DecisionLists(plist, n) ==
    UNION { [1..m -> Range(plist) \X EncodeActions] : m \in 1..n }

EncodeInit ==
    /\ hand = <<>>
    /\ key = NoKey
    /\ key0 = NoKey
    /\ hstep = "dealt"
    /\ reordered = FALSE
    /\ cache_size = 0
    /\ fs \in {[corpus |-> c, removed |-> {}] : c \in {"full", "nofold"}}
    /\ CACHE = <<>>
    /\ position_list = init_position_list(2, SuppliedConfigs["Positions"])
    /\ position = NoPosition
    /\ todo = <<>>
    /\ results = <<>>
    /\ ret = "returned"
    /\ call = NoCall
    /\ look = NoLookup
    /\ useOrder = <<>>
    /\ supplied \in EncodeConfigs
    /\ proc_configs = <<>>
    /\ decisions \in DecisionLists(position_list, MaxDecisions)
    /\ sequence = <<>>
    /\ encoded = [name |-> <<>>, exists |-> FALSE]
    /\ estep = "new"

\* ActionProcessor.__init__
Construct ==
    /\ estep = "new"
    /\ proc_configs' = ProcessorConfigs(supplied)
    /\ estep' = "constructed"
    /\ UNCHANGED <<handVars, procVars, readerVars, lookVars, supplied, decisions, sequence, encoded>>

\* ActionProcessor.get_action_sequence
BuildSequence ==
    /\ estep = "constructed"
    /\ sequence' = get_action_sequence(position_list, decisions)
    /\ estep' = "built"
    /\ UNCHANGED <<handVars, procVars, readerVars, lookVars, supplied, proc_configs, decisions, encoded>>

\* ActionProcessor.find_valid_raise_sizes
ResolveRaises ==
    /\ estep = "built"
    /\ sequence' = find_valid_raise_sizes(proc_configs, sequence)
    /\ estep' = "resolved"
    /\ UNCHANGED <<handVars, procVars, readerVars, lookVars, supplied, proc_configs, decisions, encoded>>

\* ActionProcessor.test_action_sequence, get_filename in it
TestSequence ==
    /\ estep = "resolved"
    /\ encoded' = [name |-> get_filename(proc_configs, sequence),
                   exists |-> test_action_sequence(proc_configs, fs, sequence)]
    /\ proc_configs' = ConfigsAfterFilename(proc_configs, sequence)
    /\ estep' = "tested"
    /\ UNCHANGED <<handVars, procVars, readerVars, lookVars, supplied, decisions, sequence>>

EncodeNext == Construct \/ BuildSequence \/ ResolveRaises \/ TestSequence

SpecEncode == EncodeInit /\ [][EncodeNext]_vars

\* ------------------------------------------------------------------------
\* The scenario rules on trees of every size (SpecScenario): a reader for an
\* active seat fills its grid as in Spec, on a folder with every file
\* ------------------------------------------------------------------------

ScenarioInit ==
    /\ hand = <<"A", "s", "K", "s">>
    /\ key = NoKey
    /\ key0 = NoKey
    /\ hstep = "dealt"
    /\ reordered = FALSE
    /\ cache_size \in {0, MaxCapacity}
    /\ fs = [corpus |-> "full", removed |-> {}]
    /\ CACHE = <<>>
    /\ \E num_players \in 2..MaxSeats : position_list = init_position_list(num_players, full_position_list)
    /\ position \in Range(position_list)
    /\ todo = PositionCells(position_list, position)
    /\ results = <<>>
    /\ ret = "running"
    /\ call = NoCall
    /\ look = NoLookup
    /\ useOrder = <<>>
    /\ NoEncoding

SpecScenario == ScenarioInit /\ [][Next]_vars

\* ------------------------------------------------------------------------
\* Properties of the canonicalisation (SpecHand)
\* ------------------------------------------------------------------------

\* C1: converting the canonical key of a valid hand of 2, 4 or 5 cards again
\* gives the same key (also for the bare 4-character key of a rainbow Omaha hand)
C1_Idempotent ==
    (hstep = "converted" /\ IsValidHand(hand)) => convert_hand(key) = key

\* C2: every reordering of the two-character card groups of a valid hand
\* converts to the key of the order first dealt
C2_PermutationInvariant ==
    (hstep = "converted" /\ IsValidHand(hand)) => key = key0

C2_Witness ==
    /\ hstep = "converted"
    /\ reordered
    /\ Len(hand) = 10
    /\ hand[1] = "J"
    /\ key = key0

\* C6: a hand string of 4, 8 or 10 characters with a character outside the
\* alphabet of its position comes back unchanged, and nothing is raised
C6_DamagedHandUnchanged ==
    (hstep = "converted" /\ IsDamagedHand(hand)) => key = hand

\* the key section 4.1 states for two cards r1 s1 r2 s2
HoldemKeyStated(h) ==
    LET hi == IF RANK_ORDER[h[1]] >= RANK_ORDER[h[3]] THEN h[1] ELSE h[3]
        lo == IF RANK_ORDER[h[1]] >= RANK_ORDER[h[3]] THEN h[3] ELSE h[1]
    IN IF h[1] = h[3] THEN <<h[1], h[1]>>
       ELSE <<hi, lo, IF h[2] = h[4] THEN "s" ELSE "o">>

\* C9: two valid cards convert to RR for a pair, else to the two ranks in
\* descending order followed by s (same suit) or o; AsKh -> AKo, AsKs -> AKs,
\* AsAh -> AA, KhAs -> AKo
C9_HoldemKey ==
    (hstep = "converted" /\ Len(hand) = 4 /\ IsValidHand(hand)) =>
        /\ key = HoldemKeyStated(hand)
        /\ hand = <<"A", "s", "K", "h">> => key = <<"A", "K", "o">>
        /\ hand = <<"A", "s", "K", "s">> => key = <<"A", "K", "s">>
        /\ hand = <<"A", "s", "A", "h">> => key = <<"A", "A">>
        /\ hand = <<"K", "h", "A", "s">> => key = <<"A", "K", "o">>

C9_Witness ==
    /\ hstep = "converted"
    /\ hand = <<"K", "h", "A", "s">>
    /\ key = <<"A", "K", "o">>

\* ------------------------------------------------------------------------
\* Properties of the shared cache (SpecCache)
\* ------------------------------------------------------------------------

\* C3: after a cached lookup by a processor of capacity C > 0 the number of
\* resident entries is at most C, whatever the capacities of the processors
\* that filled CACHE before; a lookup with C = 0 adds no entry
C3_CacheWithinCapacity ==
    (look.done /\ look.tested) =>
        /\ look.size > 0 => Len(CACHE) <= look.size
        /\ look.size = 0 => ~look.added

\* C4: the entry a miss evicts is the resident path whose last lookup (hit or
\* insertion) is the oldest; with capacity 2, get(A), get(B), get(A), get(C)
\* evicts B
C4_EvictsLeastRecentlyUsed ==
    (look.done /\ look.evicted # NoPath) => look.evicted = look.lru

\* the hand-token lines of a range file
HandTokens(lines) == {Strip(lines[2 * j - 1]) : j \in 1..((Len(lines) + 1) \div 2)}

\* C8: in both cache modes a lookup raises nothing and returns a row other
\* than the zero row only for a key equal to a hand-token line of the file
C8_ExactTokenMatch ==
    (look.done /\ look.tested) =>
        /\ look.result.exc = "none"
        /\ look.result.row # ZeroRow => look.key \in HandTokens(FileLines(look.path))

\* ------------------------------------------------------------------------
\* Properties of lookups of missing files (SpecFiles)
\* ------------------------------------------------------------------------

\* C7 as stated: a lookup whose file is missing at the existence test or at
\* the read gives no row or the zero row, raises nothing and opens the file
\* at most once
C7_MissingFileZeroRow ==
    (look.done /\ (~look.tested \/ ~look.atRead)) =>
        /\ look.result.exc = "none"
        /\ look.result.row \in {<<>>, ZeroRow}
        /\ look.opens <= 1

\* C7: a lookup whose file is missing raises nothing and opens the file at
\* most once; it gives no row when the file is missing at the existence test,
\* the zero row after one failed open when the file vanished before the read
\* and its path is not resident in CACHE, and the answer of the resident table
\* without any open when the path is resident
C7_MissingFileUnlessResident ==
    (look.done /\ (~look.tested \/ ~look.atRead)) =>
        /\ look.result.exc = "none"
        /\ look.opens <= 1
        /\ ~look.tested => (look.result = NoRow /\ look.opens = 0)
        /\ (look.tested /\ ~look.hit) => (look.result = Returned(ZeroRow) /\ look.opens = 1)
        /\ look.hit => look.opens = 0

C7_Witness ==
    /\ look.done
    /\ look.tested
    /\ ~look.atRead
    /\ ~look.hit
    /\ look.size = 0
    /\ look.key = <<"A", "K", "s">>
    /\ look.result = Returned(ZeroRow)
    /\ look.opens = 1

\* ------------------------------------------------------------------------
\* Properties of the session (Spec)
\* ------------------------------------------------------------------------

\* C5: for a seat outside the active seat list, TreeReader.get_results and
\* every scenario operation return an empty result and raise nothing
C5_InvalidSeatEmpty ==
    position \notin Range(position_list) =>
        /\ ret # "raised"
        /\ (call # NoCall /\ call.pos \notin Range(position_list)) =>
              (call.exc = "none" /\ call.rows = <<>>)
        /\ ret = "returned" => \A i \in DOMAIN results : results[i].rows = <<>>

\* the rows section 4 states for one action of ValidActions: none without a
\* backing file, else the row of a listing of the key, or the zero row when
\* the file does not list the key
StatedRows(plist, action_before_list, pos, h, action) ==
    LET seq == ResolvedSequence(configs, plist, action_before_list, pos, action)
        lines == FileLines(get_filename(configs, seq))
        listed == {j \in 1..(Len(lines) \div 2) : Strip(lines[2 * j - 1]) = h}
    IN IF listed = {} THEN {ZeroRow}
       ELSE {ParseRow(Strip(lines[2 * j]), seq).row : j \in listed}

BackedActions(plist, action_before_list, pos) ==
    SelectSeq(configs["ValidActions"],
              LAMBDA a : test_action_sequence(configs, fs,
                             ResolvedSequence(configs, plist, action_before_list, pos, a)))

\* C10: for a valid seat ActionProcessor.get_results returns one row per
\* action of ValidActions with a backing file, in that order; each row is
\* (resolved action, frequency, ev) of the hand in that file, or the zero row
\* when the file does not list the hand
C10_OneRowPerBackedAction ==
    (call # NoCall /\ call.kind = "call" /\ call.pos \in Range(position_list)) =>
        LET backed == BackedActions(position_list, call.prefix, call.pos)
        IN /\ call.exc = "none"
           /\ Len(call.rows) = Len(backed)
           /\ \A i \in DOMAIN backed :
                 i \in DOMAIN call.rows =>
                    call.rows[i] \in StatedRows(position_list, call.prefix, call.pos,
                                                convert_hand(hand), backed[i])

\* ------------------------------------------------------------------------
\* Properties of the encoding (SpecEncode)
\* ------------------------------------------------------------------------

\* the tokens of seq under the configs cfg, joined by "."
RECURSIVE JoinedTokens(_, _)
JoinedTokens(cfg, seq) ==
    IF seq = <<>> THEN <<>>
    ELSE IF Len(seq) = 1 THEN cfg[seq[1][2]]
    ELSE cfg[seq[1][2]] \o <<".">> \o JoinedTokens(cfg, Tail(seq))

\* every action of seq has a token in the configs the processor was constructed with
AllConfigured(seq) ==
    \A i \in DOMAIN seq : seq[i][2] \in DOMAIN ProcessorConfigs(supplied)

\* C11: for a resolved sequence whose actions all have a configured token,
\* get_filename returns the tokens in sequence order joined by ".", followed by
\* the extension, also when a token is empty or begins with "."; the decision
\* list [(SB, Raise), (BB, Call)] with ladder [2.5] maps to Raise250.Call.rng
C11_FilenameJoinsTokens ==
    (estep = "tested" /\ AllConfigured(sequence)) =>
        /\ encoded.name = JoinedTokens(ProcessorConfigs(supplied), sequence)
                            \o ProcessorConfigs(supplied)["Ending"]
        /\ ( /\ decisions = << <<"SB", "Raise">>, <<"BB", "Call">> >>
             /\ supplied["RaiseSizeList"] = <<"2.5">>
             /\ "Fold" \notin DOMAIN supplied
             /\ "Call" \notin DOMAIN supplied )
           => encoded.name = <<"R", "a", "i", "s", "e", "2", "5", "0", ".",
                               "C", "a", "l", "l", ".", "r", "n", "g">>

\* the characters of the names Fold and Call
OwnName ==
    ("Fold" :> <<"F", "o", "l", "d">>) @@ ("Call" :> <<"C", "a", "l", "l">>) @@ NameChars

\* C12: an action Fold, Call or RaiseNNN for which the supplied configs give
\* no token is encoded by its own name
C12_TokenDefaultsToName ==
    estep = "tested" =>
        \A i \in DOMAIN sequence :
            LET a == sequence[i][2]
            IN (a \in {"Fold", "Call", "Raise250", "Raise300"} /\ a \notin DOMAIN supplied) =>
                  (a \in DOMAIN proc_configs /\ proc_configs[a] = OwnName[a])

\* the ladder entries that have a numeric part, in ladder order
NumericSizes(ladder) == SelectSeq(ladder, LAMBDA size : HasNumericPart(size))

\* C19: find_valid_raise_sizes replaces every abstract Raise by the token of
\* the first ladder size, whatever files exist, and leaves every other entry
\* as it is and where it is; with a numeric size on the ladder the result has
\* the length and the seats of its input
C19_FirstLadderSize ==
    (estep \in {"resolved", "tested"} /\ NumericSizes(proc_configs["RaiseSizeList"]) # <<>>) =>
        LET input == get_action_sequence(position_list, decisions)
            first == NumericSizes(proc_configs["RaiseSizeList"])[1]
        IN /\ Len(sequence) = Len(input)
           /\ \A i \in DOMAIN input :
                 i \in DOMAIN sequence =>
                    /\ sequence[i][1] = input[i][1]
                    /\ input[i][2] = "Raise" => sequence[i][2] = RaiseKey[first]
                    /\ input[i][2] # "Raise" => sequence[i] = input[i]

C19_Witness ==
    /\ estep = "resolved"
    /\ fs.corpus = "nofold"
    /\ supplied["RaiseSizeList"] = <<"2.5", "3.0">>
    /\ decisions = << <<"SB", "Raise">>, <<"BB", "Raise">> >>
    /\ sequence = << <<"SB", "Raise250">>, <<"BB", "Raise250">> >>

\* C20: when an action of the resolved sequence has no token in the configs,
\* get_filename gives no file name, the sequence has no file, and no key is
\* added to the configs; also for an action whose name starts with Raise
C20_MissingTokenIsError ==
    (estep = "tested" /\ ~AllConfigured(sequence)) =>
        /\ encoded.name = <<>>
        /\ ~encoded.exists
        /\ proc_configs = ProcessorConfigs(supplied)

\* ------------------------------------------------------------------------
\* Further properties of the canonicalisation (SpecHand)
\* ------------------------------------------------------------------------

\* the bijective renamings of the four suits
SuitRenamings ==
    {f \in [Range(SUITS) -> Range(SUITS)] : \A a, b \in Range(SUITS) : f[a] = f[b] => a = b}

\* the hand h with the suit of every card renamed by f
RenameSuits(h, f) == [i \in DOMAIN h |-> IF i % 2 = 0 THEN f[h[i]] ELSE h[i]]

\* C13: every bijective renaming of the suits of a valid hand leaves its key
\* unchanged, also for five cards with a suited group of three and a suited
\* group of two that share their two lowest ranks
C13_SuitPermutationInvariant ==
    (hstep = "converted" /\ IsValidHand(hand)) =>
        \A f \in SuitRenamings : convert_hand(RenameSuits(hand, f)) = key

\* the rank of RANK_ORDER value v
RankOfValue(v) == CHOOSE r \in DOMAIN RANK_ORDER : RANK_ORDER[r] = v

HandCards(h) == {<<h[2 * i - 1], h[2 * i]>> : i \in 1..(Len(h) \div 2)}

\* the ranks the hand holds in suit s
RanksInSuit(h, s) == {c[1] : c \in {d \in HandCards(h) : d[2] = s}}

SuitsHolding(h, n) == {s \in Range(SUITS) : Cardinality(RanksInSuit(h, s)) = n}

RECURSIVE RepeatSeq(_, _)
RepeatSeq(str, n) == IF n = 0 THEN <<>> ELSE str \o RepeatSeq(str, n - 1)

\* the ranks of the set S in ascending order, from value v on
RECURSIVE AscendingFrom(_, _)
AscendingFrom(S, v) ==
    IF v > 12 THEN <<>>
    ELSE (IF RankOfValue(v) \in S THEN <<RankOfValue(v)>> ELSE <<>>) \o AscendingFrom(S, v + 1)

GroupText(S) == <<"(">> \o AscendingFrom(S, 0) \o <<")">>

\* the ranks of the cards whose suit occurs once, ascending, from value v on
RECURSIVE SinglesFrom(_, _)
SinglesFrom(h, v) ==
    IF v > 12 THEN <<>>
    ELSE RepeatSeq(<<RankOfValue(v)>>,
                   Cardinality({s \in SuitsHolding(h, 1) : RanksInSuit(h, s) = {RankOfValue(v)}}))
         \o SinglesFrom(h, v + 1)

\* the suited pairs of high rank value hi, ascending by the low rank, from
\* low value lo on
RECURSIVE PairsUnder(_, _, _)
PairsUnder(h, hi, lo) ==
    IF lo >= hi THEN <<>>
    ELSE LET pair == {RankOfValue(hi), RankOfValue(lo)}
         IN RepeatSeq(GroupText(pair),
                      Cardinality({s \in SuitsHolding(h, 2) : RanksInSuit(h, s) = pair}))
            \o PairsUnder(h, hi, lo + 1)

\* the suited pairs, ascending by (high rank, low rank), from high value hi on
RECURSIVE PairsFrom(_, _)
PairsFrom(h, hi) ==
    IF hi > 12 THEN <<>> ELSE PairsUnder(h, hi, 0) \o PairsFrom(h, hi + 1)

\* the groups of the suits of the set G, in any order
GroupsOf(h, G) ==
    IF G = {} THEN <<>> ELSE GroupText(RanksInSuit(h, CHOOSE s \in G : TRUE))

\* the key stated for four cards: singles, suited pairs, triplet, quad
OmahaKeyStated(h) ==
    SinglesFrom(h, 0) \o PairsFrom(h, 0)
    \o GroupsOf(h, SuitsHolding(h, 3)) \o GroupsOf(h, SuitsHolding(h, 4))

\* C17: the key of a valid 4-card hand is the ranks of the cards whose suit
\* occurs once, ascending and bare, then one (low high) pair per suit that
\* occurs twice, the pairs ascending by (high rank, low rank), then an
\* ascending triplet in parentheses for a suit occurring three times, then an
\* ascending quad for a suit occurring four times
C17_OmahaKey ==
    (hstep = "converted" /\ Len(hand) = 8 /\ IsValidHand(hand)) => key = OmahaKeyStated(hand)

C17_Witness ==
    /\ hstep = "converted"
    /\ hand = <<"A", "s", "Q", "h", "K", "s", "K", "h">>
    /\ key = <<"(", "Q", "K", ")", "(", "K", "A", ")">>

\* (first rank, second rank) of the ascending group of suit s
FirstTwo(h, s) ==
    LET g == AscendingFrom(RanksInSuit(h, s), 0) IN <<RANK_ORDER[g[1]], RANK_ORDER[g[2]]>>

\* the orders of the suits with two or more cards that ascend by
\* (first rank, second rank)
GroupOrders(h) ==
    LET G == {s \in Range(SUITS) : Cardinality(RanksInSuit(h, s)) >= 2}
    IN {p \in [1..Cardinality(G) -> G] :
           /\ \A i, j \in DOMAIN p : p[i] = p[j] => i = j
           /\ \A i, j \in DOMAIN p : i < j => ~TupleLess(FirstTwo(h, p[j]), FirstTwo(h, p[i]))}

\* the keys stated for five cards
Omaha5KeysStated(h) ==
    {SinglesFrom(h, 0) \o Concat([i \in DOMAIN p |-> GroupText(RanksInSuit(h, p[i]))]) :
        p \in GroupOrders(h)}

\* C18: the key of a valid 5-card hand is the ranks of the suits with one
\* card, ascending and bare, then one group in parentheses per suit with two
\* or more cards, each group ascending, the groups ascending by
\* (first rank, second rank)
C18_Omaha5Key ==
    (hstep = "converted" /\ Len(hand) = 10 /\ IsValidHand(hand)) => key \in Omaha5KeysStated(hand)

C18_Witness ==
    /\ hstep = "converted"
    /\ hand = <<"K", "h", "A", "s", "Q", "h", "K", "s", "J", "c">>
    /\ key = <<"J", "(", "Q", "K", ")", "(", "K", "A", ")">>

\* ------------------------------------------------------------------------
\* Properties of the scenario rules (SpecScenario)
\* ------------------------------------------------------------------------

\* the seats of a sequence, in order
SeatsOf(seq) == [i \in DOMAIN seq |-> seq[i][1]]

\* C14: for every decision list of a scenario call (its prefix and an action
\* of the analysed seat) the output of get_action_sequence holds every active
\* seat exactly once, in rotation order from seat 0, and a Fold only for
\* seats without a decision in the list
C14_EachSeatOnce ==
    (call # NoCall /\ call.kind = "call") =>
        \A action \in Range(configs["ValidActions"]) :
            LET action_list == Append(call.prefix, <<call.pos, action>>)
                out == get_action_sequence(position_list, action_list)
            IN /\ SeatsOf(out) = position_list
               /\ \A i \in DOMAIN out :
                     (out[i][2] = "Fold" /\ <<out[i][1], "Fold">> \notin Range(action_list)) =>
                        out[i][1] \notin Range(SeatsOf(action_list))

\* a scenario call that returned [] without calling ActionProcessor.get_results
EmptyCall == call.kind = "empty" /\ call.exc = "none" /\ call.rows = <<>>

\* the index of the analysed seat and of the column seat of the last call
PosIndex == IndexOf(position_list, call.pos)

ColIndex == IndexOf(position_list, call.col)

\* C15: for every active seat p, get_vs_4bet(p, p) and get_4bet(p, p) are
\* empty, and so is every scenario call whose seats break its ordering
\* constraint: vs first in with p the opener, squeeze with index(p) <=
\* index(rfi) + 1, vs squeeze with index(squeezer) <= index(p) + 1, a cold
\* 4bet against the first seat, vs 4bet with p the first seat; no file is
\* looked up
C15_ScenarioGeometry ==
    (call # NoCall /\ call.pos \in Range(position_list)) =>
        /\ (call.op \in {"vs_4bet", "4bet", "vs_first_in"} /\ call.pos = call.col) => EmptyCall
        /\ (call.op = "squeeze" /\ PosIndex <= ColIndex + 1) => EmptyCall
        /\ (call.op = "vs_squeeze" /\ ColIndex <= PosIndex + 1) => EmptyCall
        /\ (call.op = "4bet" /\ PosIndex > ColIndex /\ ColIndex = 0) => EmptyCall
        /\ (call.op = "vs_4bet" /\ PosIndex = 0) => EmptyCall

C15_Witness ==
    /\ call.op = "4bet"
    /\ call.pos = "CO"
    /\ call.col = "UTG"
    /\ position_list = <<"UTG", "MP", "CO", "BU", "SB", "BB">>
    /\ EmptyCall
    /\ CACHE = <<>>

\* C16: for seats p and rfi with index(p) > index(rfi) + 1, get_squeeze calls
\* the engine for seat p with the prefix [(rfi, Raise), (seat after rfi, Call)];
\* on [UTG, MP, CO, BU, SB, BB], squeeze(BU, UTG) uses [(UTG, Raise), (MP, Call)]
\* and squeeze(MP, UTG) is empty
C16_SqueezePrefix ==
    (call # NoCall /\ call.op = "squeeze" /\ call.pos \in Range(position_list)) =>
        /\ PosIndex > ColIndex + 1 =>
              /\ call.kind = "call"
              /\ call.prefix = << <<call.col, "Raise">>, <<position_list[ColIndex + 2], "Call">> >>
        /\ (position_list = <<"UTG", "MP", "CO", "BU", "SB", "BB">> /\ call.col = "UTG") =>
              /\ call.pos = "BU" =>
                    (call.kind = "call" /\ call.prefix = << <<"UTG", "Raise">>, <<"MP", "Call">> >>)
              /\ call.pos = "MP" => EmptyCall

C16_Witness ==
    /\ call.op = "squeeze"
    /\ call.pos = "BU"
    /\ call.col = "UTG"
    /\ position_list = <<"UTG", "MP", "CO", "BU", "SB", "BB">>
    /\ call.kind = "call"
    /\ call.prefix = << <<"UTG", "Raise">>, <<"MP", "Call">> >>
    /\ Len(call.rows) = 3

\* C21: for distinct active seats p and opener, get_vs_first_in calls the
\* engine for seat p with the prefix [(opener, Raise)] when index(p) >
\* index(opener) and with [(p, Raise), (opener, Raise)] when index(p) <
\* index(opener); it returns [] when p is the opener
C21_VsFirstInPrefix ==
    (call # NoCall /\ call.op = "vs_first_in" /\ call.pos \in Range(position_list)) =>
        /\ PosIndex > ColIndex =>
              (call.kind = "call" /\ call.prefix = << <<call.col, "Raise">> >>)
        /\ PosIndex < ColIndex =>
              (call.kind = "call"
               /\ call.prefix = << <<call.pos, "Raise">>, <<call.col, "Raise">> >>)
        /\ call.pos = call.col => EmptyCall

C21_Witness ==
    /\ call.op = "vs_first_in"
    /\ call.pos = "MP"
    /\ call.col = "BU"
    /\ position_list = <<"UTG", "MP", "CO", "BU", "SB", "BB">>
    /\ call.kind = "call"
    /\ call.prefix = << <<"MP", "Raise">>, <<"BU", "Raise">> >>
    /\ Len(call.rows) = 3

\* the seats a squeeze against the analysed seat of the last call can come
\* from: index(squeezer) >= index(p) + 2
AdmissibleSqueezers ==
    {s \in Range(position_list) : IndexOf(position_list, s) >= PosIndex + 2}

\* the rows ActionProcessor.get_results gives now for a rule that calls
RowsOf(rule, pos) ==
    get_results(configs, CACHE, cache_size, fs, position_list, hand, rule.prefix, pos).rows

\* C22: get_vs_squeeze(p, squeezer) is [] unless index(squeezer) >= index(p)
\* + 2; otherwise it calls the engine for seat p with the prefix [(p, Raise),
\* (seat after p, Call)]; prefix and rows are the same for every admissible
\* squeezer, and no sequence built for the call holds a raise of the squeezer
C22_VsSqueezePrefix ==
    (call # NoCall /\ call.op = "vs_squeeze" /\ call.pos \in Range(position_list)) =>
        /\ call.col \notin AdmissibleSqueezers => EmptyCall
        /\ call.col \in AdmissibleSqueezers =>
              /\ call.kind = "call"
              /\ call.prefix = << <<call.pos, "Raise">>, <<position_list[PosIndex + 2], "Call">> >>
              /\ \A s \in AdmissibleSqueezers :
                    LET rule == get_vs_squeeze(position_list, call.pos, s)
                    IN /\ rule.kind = "call"
                       /\ rule.prefix = call.prefix
                       /\ RowsOf(rule, call.pos) = call.rows
              /\ \A action \in Range(configs["ValidActions"]) :
                    LET built == ResolvedSequence(configs, position_list, call.prefix, call.pos, action)
                    IN \A i \in DOMAIN built :
                          built[i][1] = call.col => ~StartsWithRaise(built[i][2])

C22_Witness ==
    /\ call.op = "vs_squeeze"
    /\ call.pos = "UTG"
    /\ call.col = "BU"
    /\ position_list = <<"UTG", "MP", "CO", "BU", "SB", "BB">>
    /\ call.kind = "call"
    /\ call.prefix = << <<"UTG", "Raise">>, <<"MP", "Call">> >>
    /\ Cardinality(AdmissibleSqueezers) = 4
    /\ Len(call.rows) = 3

\* C23: for distinct active seats p and threebettor, get_4bet calls the
\* engine for seat p with the prefix [(p, Raise), (threebettor, Raise)] when
\* index(p) < index(threebettor); when index(p) > index(threebettor) the
\* prefix is [(seat before threebettor, Raise), (threebettor, Raise)], and
\* the result is [] when threebettor is the first seat
C23_FourBetPrefix ==
    (call # NoCall /\ call.op = "4bet" /\ call.pos \in Range(position_list)
     /\ call.pos # call.col) =>
        /\ PosIndex < ColIndex =>
              (call.kind = "call"
               /\ call.prefix = << <<call.pos, "Raise">>, <<call.col, "Raise">> >>)
        /\ (PosIndex > ColIndex /\ ColIndex > 0) =>
              (call.kind = "call"
               /\ call.prefix = << <<position_list[ColIndex], "Raise">>, <<call.col, "Raise">> >>)
        /\ (PosIndex > ColIndex /\ ColIndex = 0) => EmptyCall

C23_Witness ==
    /\ call.op = "4bet"
    /\ call.pos = "BU"
    /\ call.col = "CO"
    /\ position_list = <<"UTG", "MP", "CO", "BU", "SB", "BB">>
    /\ call.kind = "call"
    /\ call.prefix = << <<"MP", "Raise">>, <<"CO", "Raise">> >>
    /\ Len(call.rows) = 3

\* C24: for distinct active seats p, not the first seat, and fourbettor,
\* get_vs_4bet calls the engine for seat p with the prefix [(fourbettor,
\* Raise), (p, Raise), (fourbettor, Raise)] when index(p) > index(fourbettor)
\* and with [(seat before p, Raise), (p, Raise), (fourbettor, Raise)] when
\* index(p) < index(fourbettor); the prefix has exactly three decisions, all
\* Raise, the last by fourbettor
C24_VsFourBetPrefix ==
    (call # NoCall /\ call.op = "vs_4bet" /\ call.pos \in Range(position_list)
     /\ call.pos # call.col /\ PosIndex > 0) =>
        /\ call.kind = "call"
        /\ PosIndex > ColIndex =>
              call.prefix = << <<call.col, "Raise">>, <<call.pos, "Raise">>, <<call.col, "Raise">> >>
        /\ PosIndex < ColIndex =>
              call.prefix = << <<position_list[PosIndex], "Raise">>, <<call.pos, "Raise">>,
                               <<call.col, "Raise">> >>
        /\ Len(call.prefix) = 3
        /\ \A i \in DOMAIN call.prefix : call.prefix[i][2] = "Raise"
        /\ call.prefix[Len(call.prefix)] = <<call.col, "Raise">>

C24_Witness ==
    /\ call.op = "vs_4bet"
    /\ call.pos = "CO"
    /\ call.col = "SB"
    /\ position_list = <<"UTG", "MP", "CO", "BU", "SB", "BB">>
    /\ call.kind = "call"
    /\ call.prefix = << <<"MP", "Raise">>, <<"CO", "Raise">>, <<"SB", "Raise">> >>
    /\ Len(call.rows) = 3

\* ------------------------------------------------------------------------
\* Properties of the first-in cell (Spec)
\* ------------------------------------------------------------------------

\* C25: in the default grid and in the view of one seat, the first-in query
\* of seat BB has the prefix [(SB, Call)] and the first-in query of every
\* other seat has the empty prefix
C25_LimpedPotForBB ==
    (call # NoCall /\ call.op = "first_in") =>
        /\ call.kind = "call"
        /\ call.pos = "BB" => call.prefix = << <<"SB", "Call">> >>
        /\ call.pos # "BB" => call.prefix = <<>>
        /\ position # NoPosition => call.pos = position
        /\ position = NoPosition => call.pos \in Range(position_list)

C25_Witness ==
    /\ position = NoPosition
    /\ call.op = "first_in"
    /\ call.pos = "BB"
    /\ call.prefix = << <<"SB", "Call">> >>
    /\ Len(results) > 1
    /\ results[1].op = "first_in"
    /\ results[1].pos # "BB"

\* ------------------------------------------------------------------------
\* Properties of the configs of a processor (SpecEncode)
\* ------------------------------------------------------------------------

\* the RaiseNNN keys derived from the supplied ladder
LadderKeys ==
    IF "RaiseSizeList" \in DOMAIN supplied
    THEN {RaiseKey[x] : x \in {y \in Range(supplied["RaiseSizeList"]) : HasNumericPart(y)}}
    ELSE {}

\* C26: after the construction of a processor and after get_filename, every
\* key the caller supplied has the value supplied, and every key that was
\* added is a RaiseNNN token derived from the raise-size ladder
C26_OnlyLadderTokensAdded ==
    estep # "new" =>
        /\ \A k \in DOMAIN supplied : k \in DOMAIN proc_configs /\ proc_configs[k] = supplied[k]
        /\ \A k \in DOMAIN proc_configs \ DOMAIN supplied : k \in LadderKeys

\* ------------------------------------------------------------------------
\* Properties of the resident tables (SpecFiles)
\* ------------------------------------------------------------------------

\* the row read_hand_with_cache takes from a table for the key k and a
\* sequence of the path
AnswerFrom(table, k, path) ==
    LET seq == CHOOSE q \in FileSequences : get_filename(configs, q) = path
    IN IF k \notin DOMAIN table \/ table[k] = <<>> THEN Returned(ZeroRow)
       ELSE ParseRow(table[k], seq)

\* the step is a lookup through read_hand_with_cache of the path
CachedLookupOf(path) ==
    /\ cache_size' = cache_size
    /\ cache_size # 0
    /\ look'.done
    /\ look'.tested
    /\ look'.path = path

\* C27: a table is built once, from one read of the file, when its path enters
\* CACHE; while the path is resident every lookup of it through
\* read_hand_with_cache is answered from that table without opening the file,
\* no step changes the table, and the path leaves CACHE only as the entry
\* evicted by a miss on another path
C27_ResidentTableImmutable ==
    [][ /\ \A e \in Range(CACHE) :
              /\ e.path \in CachePaths(CACHE') => CacheTable(CACHE', e.path) = e.table
              /\ e.path \notin CachePaths(CACHE') =>
                    /\ look'.added
                    /\ look'.evicted = e.path
                    /\ look'.path # e.path
              /\ CachedLookupOf(e.path) =>
                    /\ look'.opens = 0
                    /\ look'.result = AnswerFrom(e.table, look'.key, e.path)
        /\ \A e \in Range(CACHE') :
              e.path \notin CachePaths(CACHE) =>
                    /\ look'.added
                    /\ look'.path = e.path
                    /\ look'.opens = 1
                    /\ e.table = read_file_into_hash(fs', e.path)
                    /\ look'.result = AnswerFrom(e.table, look'.key, e.path)
      ]_vars

\* a lookup answered from the resident table after the file was deleted
C27_Witness ==
    /\ look.done
    /\ look.hit
    /\ look.opens = 0
    /\ ~look.atRead
    /\ look.path \in CachePaths(CACHE)
    /\ CacheTable(CACHE, look.path) # EmptyHash
    /\ look.result.row # ZeroRow

\* ------------------------------------------------------------------------
\* The two lookups compared (SpecCache)
\* ------------------------------------------------------------------------

\* the sequence of the last lookup
LookedUpSequence == CHOOSE q \in LookupSequences : get_filename(configs, q) = look.path

\* C28: for the file and the key of every lookup, read_hand and
\* read_hand_with_cache on a CACHE without the path give the same outcome
C28_CachedAgreesWithDirect ==
    (look.done /\ look.tested) =>
        read_hand(configs, fs, look.key, LookedUpSequence)
            = read_hand_with_cache(configs, <<>>, MaxCapacity, fs, look.key, LookedUpSequence)

\* ------------------------------------------------------------------------
\* The neighbour seats of the scenario rules (SpecScenario)
\* ------------------------------------------------------------------------

\* the last call took a seat of its prefix from a neighbour index
UsesNeighbour ==
    \/ call.op \in {"squeeze", "vs_squeeze"}
    \/ call.op = "4bet" /\ PosIndex > ColIndex
    \/ call.op = "vs_4bet" /\ PosIndex < ColIndex

\* the index it used: index(rfi) + 1, index(p) + 1, index(threebettor) - 1,
\* index(p) - 1
NeighbourIndex ==
    CASE call.op = "squeeze" -> ColIndex + 1
      [] call.op = "vs_squeeze" -> PosIndex + 1
      [] call.op = "4bet" -> ColIndex - 1
      [] call.op = "vs_4bet" -> PosIndex - 1

\* the seat of the prefix that was taken from the neighbour index
NeighbourSeat ==
    IF call.op \in {"squeeze", "vs_squeeze"} THEN call.prefix[2][1] ELSE call.prefix[1][1]

\* C29: on tables of 2 to 6 seats, whenever get_squeeze, get_vs_squeeze,
\* get_4bet or get_vs_4bet calls the engine with a neighbour seat in the
\* prefix, the neighbour index lies in 0..len(position_list)-1 and the seat is
\* the seat at that index; no rule raises IndexError
C29_NeighbourInsideRotation ==
    (call # NoCall /\ call.op \in {"squeeze", "vs_squeeze", "4bet", "vs_4bet"}
     /\ call.pos \in Range(position_list)) =>
        /\ call.exc # "IndexError"
        /\ call.kind # "raise"
        /\ (call.kind = "call" /\ UsesNeighbour) =>
              /\ NeighbourIndex \in 0..(Len(position_list) - 1)
              /\ NeighbourSeat = position_list[NeighbourIndex + 1]

\* the neighbour is the first seat of the rotation
C29_Witness ==
    /\ call.op = "vs_4bet"
    /\ call.pos = "MP"
    /\ call.col = "BB"
    /\ position_list = <<"UTG", "MP", "CO", "BU", "SB", "BB">>
    /\ call.kind = "call"
    /\ NeighbourIndex = 0
    /\ NeighbourSeat = "UTG"
    /\ Len(call.rows) = 3

\* ------------------------------------------------------------------------
\* The output of get_action_sequence (SpecEncode)
\* ------------------------------------------------------------------------

\* the places of the output where the decisions of the list can stand: in
\* submitted order, the last decision last
Placings(list, out) ==
    {f \in [DOMAIN list -> DOMAIN out] :
        /\ \A i \in DOMAIN list : out[f[i]] = list[i]
        /\ \A i, j \in DOMAIN list : i < j => f[i] < f[j]
        /\ f[Len(list)] = Len(out)}

\* the entries of the output that are no decision of the list under f
ImplicitAt(list, out, f) == DOMAIN out \ {f[i] : i \in DOMAIN list}

\* the seats the loop walks over between entry i and entry i + 1 of the output
WalkedOver(plist, out, i) ==
    LET a == IndexOf(plist, out[i][1])
        b == IndexOf(plist, out[i + 1][1])
        d == ((b - a - 1) % Len(plist)) + 1
    IN {plist[((a + m) % Len(plist)) + 1] : m \in 1..(d - 1)}

\* C30: for a decision list on seats of the rotation, the output of
\* get_action_sequence holds the decisions once each in submitted order, the
\* last decision last; every other entry is a Fold and no seat has two of
\* them; from one entry to the next the rotation is walked forward over seats
\* already folded only; the length is at most len(decisions) + len(seats)
C30_ActionSequenceShape ==
    (estep = "built" /\ \A i \in DOMAIN decisions : decisions[i][1] \in Range(position_list)) =>
        /\ Len(sequence) <= Len(decisions) + Len(position_list)
        /\ sequence[Len(sequence)] = decisions[Len(decisions)]
        /\ \E f \in Placings(decisions, sequence) :
              LET implicit == ImplicitAt(decisions, sequence, f)
              IN /\ \A i \in implicit : sequence[i][2] = "Fold"
                 /\ \A i, j \in implicit : sequence[i][1] = sequence[j][1] => i = j
                 /\ \A i \in 1..(Len(sequence) - 1) :
                       \A seat \in WalkedOver(position_list, sequence, i) :
                          \E j \in implicit : j <= i /\ sequence[j][1] = seat

\* the second decision of BB follows its first: SB, folded before, is passed
C30_Witness ==
    /\ estep = "built"
    /\ decisions = << <<"BB", "Call">>, <<"BB", "Raise">> >>
    /\ sequence = << <<"SB", "Fold">>, <<"BB", "Call">>, <<"BB", "Raise">> >>

====
